---------------------------- MODULE Spec2Model ----------------------------
(***************************************************************************)
(* ParcelX API (src/index.js, src/server.js, src/verifyToken.js).          *)
(*                                                                         *)
(* The state is the content of the document store's collections, the       *)
(* upserts the store is still working on, the wall clock the handlers read *)
(* with new Date(), and the HTTP exchange completed last.  Every route     *)
(* handler is one action; POST /users is two, because the store matches    *)
(* and inserts an upsert in two steps that other requests interleave with. *)
(*                                                                         *)
(* The store, the payment adapter and the identity verifier are available: *)
(* a 500 response arises only from an exception the handler's own code     *)
(* raises (new ObjectId on a malformed id, an update document without      *)
(* operators, an invalid regular expression, the adapter rejecting).       *)
(***************************************************************************)
EXTENDS Integers, Sequences, FiniteSets, Bags, TLC

(***************************************************************************)
(* Bounds of the model.                                                    *)
(***************************************************************************)
MaxClock == 1
MaxUsers == 3
MaxInflight == 2
MaxRiders == 1
MaxParcels == 1
MaxEvents == 3
MaxCalls == 6

(***************************************************************************)
(* JavaScript values.                                                      *)
(***************************************************************************)
undefined == "undefined"
null == "null"
NoNum == 0 - 1

Falsy(v) == v \in {undefined, null, ""}

\* a || b
OrElse(v, d) == IF Falsy(v) THEN d ELSE v

\* destructuring default: { x = d } = body
Default(v, d) == IF v = undefined THEN d ELSE v

\* String.prototype.toLowerCase over the strings the requests carry
toLowerCase(s) ==
    CASE s = "Admin" -> "admin"
      [] s = "RIDER" -> "rider"
      [] s = "User" -> "user"
      [] s = "Active" -> "active"
      [] s = "ACTIVE" -> "active"
      [] s = "Approved" -> "approved"
      [] s = "Pending" -> "pending"
      [] s = "Rejected" -> "rejected"
      [] s = "Suspended" -> "suspended"
      [] s = "Delivered" -> "delivered"
      [] s = "DELIVERED" -> "delivered"
      [] s = "In-Transit" -> "in-transit"
      [] s = "Cancelled" -> "cancelled"
      [] s = "Dhaka" -> "dhaka"
      [] s = "DHAKA" -> "dhaka"
      [] s = "Sylhet" -> "sylhet"
      [] OTHER -> s

(***************************************************************************)
(* ObjectIds.  An id is <<tag, n>>: the store gives the n-th document of a *)
(* collection the id <<collection, n>>; <<"oid", 0>> is a well-formed id   *)
(* no document has, <<"malformed", 0>> a string that is no ObjectId and    *)
(* <<"undefined", 0>> a missing value.                                     *)
(***************************************************************************)
Oid(coll, n) == <<coll, n>>
UnknownId == <<"oid", 0>>
MalformedId == <<"malformed", 0>>
NoId == <<"undefined", 0>>

ObjectIdAlwaysValid(id) == TRUE

ObjectIdIsValid(id) == id[1] \notin {"malformed", "undefined"}

FalsyId(id) == id[1] = "undefined"

(***************************************************************************)
(* District names are matched by substring, so they are sequences of       *)
(* characters; <<"undefined">> is an absent one.                           *)
(***************************************************************************)
NoText == <<"undefined">>

Dhaka == <<"D", "h", "a", "k", "a">>
Sylhet == <<"S", "y", "l", "h", "e", "t">>

LowerChar(c) ==
    CASE c = "D" -> "d"
      [] c = "H" -> "h"
      [] c = "A" -> "a"
      [] c = "K" -> "k"
      [] c = "S" -> "s"
      [] OTHER -> c

LowerText(t) == [i \in 1..Len(t) |-> LowerChar(t[i])]

\* String.prototype.trim
RECURSIVE Trim(_)
Trim(t) ==
    IF t = <<>> THEN t
    ELSE IF Head(t) = " " THEN Trim(Tail(t))
    ELSE IF t[Len(t)] = " " THEN Trim(SubSeq(t, 1, Len(t) - 1))
    ELSE t

\* the store compiles {$regex: pattern}: an unbalanced bracket is an error
ValidRegex(pattern) == \A i \in 1..Len(pattern) : pattern[i] \notin {"(", "["}

\* {$regex: pattern, $options: "i"} on a field holding text: the pattern, a
\* plain string, occurs in it, letter case ignored
RegexMatchI(text, pattern) ==
    /\ text # NoText
    /\ \E k \in 0..(Len(text) - Len(pattern)) :
          \A j \in 1..Len(pattern) :
              LowerChar(text[k + j]) = LowerChar(pattern[j])

VARIABLES users, riders, parcels, tracking, payments, inflight, clock, last,
          cachedDb, clients, calls

\* connectDB's state: the cached handle, the store clients created so far
\* and the connectDB calls made so far
conn == <<cachedDb, clients, calls>>

vars == <<users, riders, parcels, tracking, payments, inflight, clock, last,
          conn>>

(***************************************************************************)
(* Collections are sequences in insertion (natural) order.                 *)
(***************************************************************************)
\* the documents a filter {_id: id} or {email: email} matches
ById(coll, id) == {i \in 1..Len(coll) : coll[i]._id = id}

ByEmail(coll, email) == {i \in 1..Len(coll) : coll[i].email = email}

\* updateOne and findOne take the first match
First(matched) == CHOOSE i \in matched : \A j \in matched : i <= j

NoUniqueIndex(us, email) == FALSE

\* the unique index on users.email: an insert of a second document with the
\* email is a duplicate-key error (code 11000)
DuplicateKey(us, email) == \E i \in 1..Len(us) : us[i].email = email

(***************************************************************************)
(* The clock new Date() reads.                                             *)
(***************************************************************************)
Tick ==
    /\ clock < MaxClock
    /\ clock' = clock + 1
    /\ UNCHANGED <<users, riders, parcels, tracking,
                   payments, conn, inflight, last>>

(***************************************************************************)
(* POST /users                                                             *)
(***************************************************************************)
Emails == {"a@x.io", "b@x.io"}

UserProfiles ==
    { [uid |-> undefined, name |-> undefined, image |-> undefined,
       role |-> undefined, provider |-> undefined],
      [uid |-> undefined, name |-> undefined, image |-> undefined,
       role |-> "", provider |-> undefined],
      [uid |-> "uid-1", name |-> "Ann", image |-> "ann.png",
       role |-> "manager", provider |-> "google"] }

UserBodies ==
    { [uid |-> p.uid, email |-> e, name |-> p.name, image |-> p.image,
       role |-> p.role, provider |-> p.provider] :
         e \in Emails \cup {undefined, ""}, p \in UserProfiles }

setOnInsertDocDefaultRole(body, now) ==
    [uid |-> Default(body.uid, null),
     email |-> body.email,
     name |-> Default(body.name, ""),
     image |-> Default(body.image, ""),
     provider |-> Default(body.provider, "email"),
     role |-> "user",
     createdAt |-> now]

setOnInsertDoc(body, now) ==
    [uid |-> Default(body.uid, null),
     email |-> body.email,
     name |-> Default(body.name, ""),
     image |-> Default(body.image, ""),
     provider |-> Default(body.provider, "email"),
     role |-> OrElse(body.role, "user"),
     createdAt |-> now]

InsertedUser(us, doc, now) ==
    [_id |-> Oid("users", Len(us) + 1), uid |-> doc.uid, email |-> doc.email,
     name |-> doc.name, image |-> doc.image, provider |-> doc.provider,
     role |-> doc.role, createdAt |-> doc.createdAt, lastLogin |-> now]

RefreshLogin(us, email, now) ==
    [us EXCEPT ![First(ByEmail(us, email))].lastLogin = now]

\* updateOne({email}, {$setOnInsert: doc, $set: {lastLogin: now}}, {upsert: true})
UpsertCommand(body, now) ==
    [email |-> body.email, setOnInsert |-> setOnInsertDoc(body, now),
     lastLogin |-> now]

\* the HTTP response: the route, the status code and the body's fields
Reply(op, status) == [op |-> op, status |-> status]

\* validation, and the store's match phase of the upsert
UpsertOnLogin(body) ==
    IF Falsy(body.email)
    THEN /\ last' = Reply("upsertOnLogin", 400)
         /\ UNCHANGED <<users, riders, parcels, tracking,
                        payments, conn, inflight, clock>>
    ELSE IF DuplicateKey(users, body.email)
    THEN /\ users' = RefreshLogin(users, body.email, clock)
         /\ last' = Reply("upsertOnLogin", 200)
         /\ UNCHANGED <<riders, parcels, tracking,
                        payments, conn, inflight, clock>>
    ELSE /\ BagCardinality(inflight) < MaxInflight
         /\ inflight' = inflight (+) SetToBag({UpsertCommand(body, clock)})
         /\ UNCHANGED <<users, riders, parcels, tracking,
                        payments, conn, clock, last>>

\* the store's insert phase of an upsert that matched nothing, and the rest
\* of the handler
UpsertInsert(cmd) ==
    /\ BagIn(cmd, inflight)
    /\ inflight' = inflight (-) SetToBag({cmd})
    /\ IF ~DuplicateKey(users, cmd.email)
       THEN /\ Len(users) < MaxUsers
            /\ users' = Append(users,
                               InsertedUser(users, cmd.setOnInsert, cmd.lastLogin))
            /\ last' = Reply("upsertOnLogin", 201)
       ELSE \* lost the race: the store retries the upsert as an update, or
            \* reports the duplicate key (code 11000)
            \/ /\ users' = RefreshLogin(users, cmd.email, cmd.lastLogin)
               /\ last' = Reply("upsertOnLogin", 200)
            \/ /\ users' = users
               /\ last' = Reply("upsertOnLogin", 409)
    /\ UNCHANGED <<riders, parcels, tracking, payments, conn, clock>>

(***************************************************************************)
(* verifyToken (src/verifyToken.js).  The Authorization header is the      *)
(* sequence of pieces split(' ') yields; <<>> is a request without one.    *)
(***************************************************************************)
ValidTokens == {"token-A"}

AuthHeaders ==
    { <<>>, <<"Bearer">>, <<"Bearer", "token-A">>, <<"Bearer", "forged">> }

BearerToken(authHeader) ==
    IF Len(authHeader) >= 2 THEN authHeader[2] ELSE undefined

\* admin.auth().verifyIdToken(token) resolves, or throws
verifyIdToken(token) == token \in ValidTokens

verifyTokenUnverified(authHeader) ==
    IF authHeader = <<>> \/ authHeader = <<"">> THEN 401
    ELSE IF Falsy(BearerToken(authHeader)) THEN 401
    ELSE 0

\* the exchange on a protected route: the request's header and the response
AuthReply(op, authHeader, status) ==
    [op |-> op, auth |-> authHeader, status |-> status]

\* 0: next() is called; otherwise the status verifyToken answers with
verifyToken(authHeader) ==
    IF authHeader = <<>> \/ authHeader = <<"">> THEN 401
    ELSE IF Falsy(BearerToken(authHeader)) THEN 401
    ELSE IF verifyIdToken(BearerToken(authHeader)) THEN 0
    ELSE 403

(***************************************************************************)
(* PATCH /users/:id/role                                                   *)
(***************************************************************************)
allowedRolesUnchecked == {"user", "admin", "rider", "root"}

allowedRoles == {"user", "admin", "rider"}

UserIdInputs ==
    {Oid("users", n) : n \in 1..Cardinality(Emails)}
        \cup {UnknownId, MalformedId}

RoleInputs == {undefined, "Admin", "user", "root"}

WithRole(us, i, role) == [us EXCEPT ![i].role = role]

SetRole(authHeader, id, role) ==
    LET denied == verifyToken(authHeader)
        hit == ById(users, id)
    IN
    IF denied # 0
    THEN /\ last' = AuthReply("setRole", authHeader, denied)
         /\ UNCHANGED <<users, riders, parcels, tracking,
                        payments, conn, inflight, clock>>
    ELSE IF ~ObjectIdIsValid(id) \/ Falsy(role)
                \/ toLowerCase(role) \notin allowedRoles
    THEN /\ last' = AuthReply("setRole", authHeader, 400)
         /\ UNCHANGED <<users, riders, parcels, tracking,
                        payments, conn, inflight, clock>>
    ELSE IF hit = {}
    THEN /\ last' = AuthReply("setRole", authHeader, 404)
         /\ UNCHANGED <<users, riders, parcels, tracking,
                        payments, conn, inflight, clock>>
    ELSE /\ users' = WithRole(users, First(hit), toLowerCase(role))
         /\ last' = AuthReply("setRole", authHeader, 200)
         /\ UNCHANGED <<riders, parcels, tracking,
                        payments, conn, inflight, clock>>

(***************************************************************************)
(* POST /riders: the body is inserted as it comes.                         *)
(***************************************************************************)
RiderBodies ==
    { [email |-> "a@x.io", district |-> Dhaka, status |-> "pending"],
      [email |-> "b@x.io", district |-> Sylhet, status |-> "Approved"],
      [email |-> "b@x.io", district |-> Dhaka, status |-> "ACTIVE"] }

InsertedRider(rs, body) ==
    [_id |-> Oid("riders", Len(rs) + 1), email |-> body.email,
     district |-> body.district, status |-> body.status,
     workStatus |-> undefined, lastAssignedParcel |-> NoId,
     lastAssignedAt |-> NoNum]

RiderRegister(body) ==
    /\ Len(riders) < MaxRiders
    /\ riders' = Append(riders, InsertedRider(riders, body))
    /\ last' = Reply("riderRegister", 201)
    /\ UNCHANGED <<users, parcels, tracking, payments, conn, inflight, clock>>

(***************************************************************************)
(* PATCH /riders/:id                                                       *)
(***************************************************************************)
RiderIdInputs ==
    {Oid("riders", n) : n \in 1..MaxRiders} \cup {UnknownId, MalformedId}

RiderStatusInputs == {undefined, "active", "Pending", "Rejected", "Suspended"}

updateUserRoleKept(status) ==
    IF status \in {"active", "pending", "rejected"} THEN "user" ELSE undefined

\* the update document for the user: {} when the status is none of the three
updateUserRole(status) ==
    IF status = "active" THEN "rider"
    ELSE IF status \in {"pending", "rejected"} THEN "user"
    ELSE undefined

SetUserRole(us, email, role) ==
    IF ByEmail(us, email) = {} THEN us
    ELSE [us EXCEPT ![First(ByEmail(us, email))].role = role]

RiderSetStatus(id, status, email) ==
    LET lowered == toLowerCase(status)
        hit == ById(riders, id)
    IN
    IF ~ObjectIdIsValid(id) \/ Falsy(email) \/ Falsy(status)
    THEN /\ last' = Reply("riderSetStatus", 400)
         /\ UNCHANGED <<users, riders, parcels, tracking,
                        payments, conn, inflight, clock>>
    ELSE IF hit = {}
    THEN /\ last' = Reply("riderSetStatus", 404)
         /\ UNCHANGED <<users, riders, parcels, tracking,
                        payments, conn, inflight, clock>>
    ELSE /\ riders' = [riders EXCEPT ![First(hit)].status = lowered]
         /\ IF updateUserRole(lowered) = undefined
            THEN \* updateOne(userQuery, {}) throws: no atomic operators
                 /\ users' = users
                 /\ last' = Reply("riderSetStatus", 500)
            ELSE /\ users' = SetUserRole(users, email, updateUserRole(lowered))
                 /\ last' = Reply("riderSetStatus", 200)
         /\ UNCHANGED <<parcels, tracking, payments, conn, inflight, clock>>

(***************************************************************************)
(* GET /riders/by-district                                                 *)
(***************************************************************************)
DistrictQueries ==
    { NoText, <<>>, <<"d", "h", "a">>, <<" ", "S", "y", "l", "h", "e", "t", " ">>,
      <<"K", "h", "u", "l", "n", "a">>, <<"(">> }

activeVariants == {"active", "Active", "approved", "Approved"}

\* find({district: {$regex, $options: "i"}, status: {$in: [...]}}).toArray()
RidersByDistrict(rs, pattern) ==
    SelectSeq(rs, LAMBDA r : /\ RegexMatchI(r.district, pattern)
                             /\ r.status \in activeVariants)

Ids(docs) == [i \in 1..Len(docs) |-> docs[i]._id]

\* the response of a listing: count is NoNum when the body has no count
ListReply(op, status, count, data) ==
    [op |-> op, status |-> status, count |-> count, data |-> data]

\* GET /riders/pending and GET /riders/active answer with the bare array
WithStatus(rs, statuses) == SelectSeq(rs, LAMBDA r : r.status \in statuses)

ListPending ==
    /\ last' = ListReply("listPending", 200, NoNum,
                         Ids(WithStatus(riders, {"Pending", "pending"})))
    /\ UNCHANGED <<users, riders, parcels, tracking,
                   payments, conn, inflight, clock>>

ListActive ==
    /\ last' = ListReply("listActive", 200, NoNum,
                         Ids(WithStatus(riders, {"active", "Active", "Approved"})))
    /\ UNCHANGED <<users, riders, parcels, tracking,
                   payments, conn, inflight, clock>>

ListByDistrict(district) ==
    /\ IF district = NoText \/ district = <<>>
       THEN last' = Reply("listByDistrict", 400)
       ELSE IF ~ValidRegex(Trim(district))
       THEN last' = Reply("listByDistrict", 500)
       ELSE LET found == RidersByDistrict(riders, Trim(district)) IN
            IF Len(found) = 0
            THEN last' = ListReply("listByDistrict", 404, NoNum, <<>>)
            ELSE last' = ListReply("listByDistrict", 200, Len(found), Ids(found))
    /\ UNCHANGED <<users, riders, parcels, tracking,
                   payments, conn, inflight, clock>>

(***************************************************************************)
(* GET /users                                                              *)
(***************************************************************************)
\* sort({createdAt: -1}): documents of one createdAt keep their order
RECURSIVE NewestFirst(_)
NewestFirst(docs) ==
    IF docs = <<>> THEN <<>>
    ELSE LET rest == NewestFirst(Tail(docs))
             d == Head(docs)
             before == SelectSeq(rest, LAMBDA x : x.createdAt > d.createdAt)
             after == SelectSeq(rest, LAMBDA x : x.createdAt <= d.createdAt)
         IN before \o <<d>> \o after

\* the response of a find: total and the documents' ids in order
FoundReply(op, authHeader, docs) ==
    [op |-> op, auth |-> authHeader, status |-> 200, total |-> Len(docs),
     data |-> Ids(docs)]

ListAll(authHeader) ==
    /\ IF verifyToken(authHeader) # 0
       THEN last' = AuthReply("listAll", authHeader, verifyToken(authHeader))
       ELSE last' = FoundReply("listAll", authHeader, NewestFirst(users))
    /\ UNCHANGED <<users, riders, parcels, tracking,
                   payments, conn, inflight, clock>>

(***************************************************************************)
(* GET /parcels                                                            *)
(***************************************************************************)
CreatedBy(ps, email) ==
    IF Falsy(email) THEN ps
    ELSE SelectSeq(ps, LAMBDA p : p.createdByEmail = email)

ListForCreator(authHeader, email) ==
    /\ IF verifyToken(authHeader) # 0
       THEN last' = AuthReply("listForCreator", authHeader,
                              verifyToken(authHeader))
       ELSE last' = FoundReply("listForCreator", authHeader,
                               NewestFirst(CreatedBy(parcels, email)))
    /\ UNCHANGED <<users, riders, parcels, tracking,
                   payments, conn, inflight, clock>>

(***************************************************************************)
(* POST /parcels.  Costs are whole multiples of ten, so that 30% and 80%   *)
(* of them are whole numbers.                                              *)
(***************************************************************************)
ParcelBodies ==
    { [createdByEmail |-> "a@x.io", paymentStatus |-> undefined,
       status |-> "Pending", riderDistrict |-> Dhaka,
       receiverDistrict |-> <<"d", "h", "a", "k", "a">>, deliveryCost |-> 100,
       riderEarning |-> NoNum, trackingId |-> "TRK-1", createdAt |-> NoNum,
       updatedAt |-> NoNum, createdAtReadable |-> NoNum],
      [createdByEmail |-> "a@x.io", paymentStatus |-> undefined,
       status |-> "Pending", riderDistrict |-> Dhaka,
       receiverDistrict |-> Sylhet, deliveryCost |-> 100,
       riderEarning |-> NoNum, trackingId |-> "TRK-2", createdAt |-> NoNum,
       updatedAt |-> NoNum, createdAtReadable |-> NoNum],
      [createdByEmail |-> "b@x.io", paymentStatus |-> "",
       status |-> undefined, riderDistrict |-> Dhaka,
       receiverDistrict |-> NoText, deliveryCost |-> 50,
       riderEarning |-> NoNum, trackingId |-> "TRK-1", createdAt |-> NoNum,
       updatedAt |-> NoNum, createdAtReadable |-> 0],
      [createdByEmail |-> "b@x.io", paymentStatus |-> "Paid",
       status |-> undefined, riderDistrict |-> NoText,
       receiverDistrict |-> NoText, deliveryCost |-> NoNum,
       riderEarning |-> 7, trackingId |-> undefined, createdAt |-> 9,
       updatedAt |-> 9, createdAtReadable |-> 9] }

newParcelStampsKept(body, now) ==
    [body EXCEPT
       !.paymentStatus = OrElse(body.paymentStatus, "Unpaid"),
       !.createdAtReadable =
           IF body.createdAtReadable = NoNum \/ body.createdAtReadable = 0
           THEN now ELSE body.createdAtReadable,
       !.createdAt = IF body.createdAt = NoNum THEN now ELSE body.createdAt,
       !.updatedAt = IF body.updatedAt = NoNum THEN now ELSE body.updatedAt]

\* {...req.body, paymentStatus, createdAtReadable, createdAt, updatedAt}
newParcel(body, now) ==
    [body EXCEPT
       !.paymentStatus = OrElse(body.paymentStatus, "Unpaid"),
       !.createdAtReadable =
           IF body.createdAtReadable = NoNum \/ body.createdAtReadable = 0
           THEN now ELSE body.createdAtReadable,
       !.createdAt = now,
       !.updatedAt = now]

InsertedParcel(ps, doc) ==
    [_id |-> Oid("parcels", Len(ps) + 1),
     createdByEmail |-> doc.createdByEmail,
     paymentStatus |-> doc.paymentStatus, status |-> doc.status,
     riderDistrict |-> doc.riderDistrict,
     receiverDistrict |-> doc.receiverDistrict,
     deliveryCost |-> doc.deliveryCost, riderEarning |-> doc.riderEarning,
     trackingId |-> doc.trackingId, createdAt |-> doc.createdAt,
     updatedAt |-> doc.updatedAt, createdAtReadable |-> doc.createdAtReadable,
     assignedRiderId |-> NoId, assignedRiderName |-> undefined,
     assignedRiderEmail |-> undefined, assignedAt |-> NoNum]

Create(authHeader, body) ==
    IF verifyToken(authHeader) # 0
    THEN /\ last' = AuthReply("create", authHeader, verifyToken(authHeader))
         /\ UNCHANGED <<users, riders, parcels, tracking,
                        payments, conn, inflight, clock>>
    ELSE /\ Len(parcels) < MaxParcels
         /\ parcels' = Append(parcels,
                              InsertedParcel(parcels, newParcel(body, clock)))
         /\ last' = AuthReply("create", authHeader, 201)
         /\ UNCHANGED <<users, riders, tracking,
                        payments, conn, inflight, clock>>

(***************************************************************************)
(* POST /payments/confirm.  The payment adapter's answer to retrieve() is  *)
(* the environment's: it throws or returns an intent in one of its states. *)
(***************************************************************************)
ParcelIdInputs ==
    {Oid("parcels", n) : n \in 1..MaxParcels} \cup {UnknownId, MalformedId}

IntentIdInputs == {undefined, "pi_1"}

IntentStates == {"succeeded", "processing"}

RetrieveOutcomes == IntentStates \cup {"throws", null}

IntentSettledAlways(pi) == pi # null

\* !(!pi || pi.status !== "succeeded")
IntentSettled(pi) == pi # null /\ pi = "succeeded"

ParcelFilterAnyParcel(ps, parcelId) == IF ps = <<>> THEN {} ELSE {1}

\* {$or: [{_id: new ObjectId(parcelId)}, {_id: parcelId}]}: stored ids are
\* ObjectIds, so the string alternative matches nothing
ParcelFilter(ps, parcelId) ==
    IF ObjectIdIsValid(parcelId) THEN ById(ps, parcelId) ELSE {}

MarkedPaidAndShipped(ps, matched, now) ==
    IF matched = {} THEN ps
    ELSE [ps EXCEPT ![First(matched)].paymentStatus = "Paid",
                    ![First(matched)].status = "In-Transit",
                    ![First(matched)].updatedAt = now]

MarkedPaid(ps, matched, now) ==
    IF matched = {} THEN ps
    ELSE [ps EXCEPT ![First(matched)].paymentStatus = "Paid",
                    ![First(matched)].updatedAt = now]

ConfirmPayment(parcelId, paymentIntentId, pi) ==
    IF FalsyId(parcelId) \/ Falsy(paymentIntentId)
    THEN /\ last' = Reply("confirmPayment", 400)
         /\ UNCHANGED <<users, riders, parcels, tracking,
                        payments, conn, inflight, clock>>
    ELSE IF pi = "throws"
    THEN /\ last' = Reply("confirmPayment", 500)
         /\ UNCHANGED <<users, riders, parcels, tracking,
                        payments, conn, inflight, clock>>
    ELSE IF ~IntentSettled(pi)
    THEN /\ last' = Reply("confirmPayment", 400)
         /\ UNCHANGED <<users, riders, parcels, tracking,
                        payments, conn, inflight, clock>>
    ELSE /\ parcels' = MarkedPaid(parcels, ParcelFilter(parcels, parcelId),
                                  clock)
         /\ last' = Reply("confirmPayment", 200)
         /\ UNCHANGED <<users, riders, tracking,
                        payments, conn, inflight, clock>>

(***************************************************************************)
(* PATCH /parcels/:id/status                                               *)
(***************************************************************************)
ParcelStatusInputs == {undefined, "Delivered", "DELIVERED", "Cancelled"}

\* parcel.riderDistrict?.toLowerCase()
LowerOrUndefined(t) == IF t = NoText THEN NoText ELSE LowerText(t)

isSameDistrictWhenGiven(parcel) ==
    /\ parcel.riderDistrict # NoText
    /\ LowerText(parcel.riderDistrict)
           = LowerOrUndefined(parcel.receiverDistrict)

isSameDistrict(parcel) ==
    LowerOrUndefined(parcel.riderDistrict)
        = LowerOrUndefined(parcel.receiverDistrict)

\* the percentage in tenths: 0.3 or 0.8
percentageFlat(parcel) == 3

percentage(parcel) == IF isSameDistrict(parcel) THEN 3 ELSE 8

\* (parcel.deliveryCost || 0) * percentage
riderEarning(parcel) ==
    ((IF parcel.deliveryCost = NoNum THEN 0 ELSE parcel.deliveryCost)
        * percentage(parcel)) \div 10

ParcelSetStatus(id, status) ==
    LET hit == ById(parcels, id) IN
    IF ~ObjectIdIsValid(id)
    THEN /\ last' = Reply("parcelSetStatus", 400)
         /\ UNCHANGED <<users, riders, parcels, tracking,
                        payments, conn, inflight, clock>>
    ELSE IF hit = {}
    THEN /\ last' = Reply("parcelSetStatus", 404)
         /\ UNCHANGED <<users, riders, parcels, tracking,
                        payments, conn, inflight, clock>>
    ELSE LET i == First(hit)
             parcel == parcels[i]
             \* $set of an undefined value stores null
             written == [parcels EXCEPT
                           ![i].status = IF status = undefined THEN null
                                         ELSE status,
                           ![i].updatedAt = clock]
         IN
         /\ IF status = undefined
            THEN \* status.toLowerCase() throws after the first update
                 /\ parcels' = written
                 /\ last' = Reply("parcelSetStatus", 500)
            ELSE IF toLowerCase(status) = "delivered"
            THEN /\ parcels' = [written EXCEPT
                                  ![i].riderEarning = riderEarning(parcel)]
                 /\ last' = Reply("parcelSetStatus", 200)
            ELSE /\ parcels' = written
                 /\ last' = Reply("parcelSetStatus", 200)
         /\ UNCHANGED <<users, riders, tracking,
                        payments, conn, inflight, clock>>

(***************************************************************************)
(* PATCH /parcels/:id/assign                                               *)
(***************************************************************************)
AssignRiderIds ==
    {Oid("riders", n) : n \in 1..MaxRiders} \cup {UnknownId, MalformedId, NoId}

RiderNames == {undefined, "Rana"}

AssignedIfOpen(parcel, riderId, riderName, riderEmail, now) ==
    [parcel EXCEPT !.assignedRiderId = riderId,
                   !.assignedRiderName = riderName,
                   !.assignedRiderEmail = riderEmail,
                   !.status = IF @ = "Delivered" THEN @ ELSE "In-Transit",
                   !.assignedAt = now,
                   !.updatedAt = now]

AssignedUnpaid(parcel, riderId, riderName, riderEmail, now) ==
    [parcel EXCEPT !.assignedRiderId = riderId,
                   !.assignedRiderName = riderName,
                   !.assignedRiderEmail = riderEmail,
                   !.status = "In-Transit",
                   !.paymentStatus = "Unpaid",
                   !.assignedAt = now,
                   !.updatedAt = now]

Assigned(parcel, riderId, riderName, riderEmail, now) ==
    [parcel EXCEPT !.assignedRiderId = riderId,
                   !.assignedRiderName = riderName,
                   !.assignedRiderEmail = riderEmail,
                   !.status = "In-Transit",
                   !.assignedAt = now,
                   !.updatedAt = now]

OnDelivery(rider, id, now) ==
    [rider EXCEPT !.workStatus = "Delivery",
                  !.lastAssignedParcel = id,
                  !.lastAssignedAt = now]

\* modifiedCount of an updateOne: 1 when the matched document changed
modifiedCount(before, after) == IF before = after THEN 0 ELSE 1

AssignReply(parcelModified, riderModified) ==
    [op |-> "assignRider", status |-> 200,
     parcelModified |-> parcelModified, riderModified |-> riderModified]

riderUpdate(rs, riderId, id, now) ==
    IF ById(rs, riderId) = {} THEN rs
    ELSE [rs EXCEPT ![First(ById(rs, riderId))] = OnDelivery(@, id, now)]

parcelUpdateIfRider(ps, id, riderId, riderName, riderEmail, now) ==
    IF ById(ps, id) = {} \/ ById(riders, riderId) = {} THEN ps
    ELSE [ps EXCEPT ![First(ById(ps, id))] =
                        Assigned(@, riderId, riderName, riderEmail, now)]

parcelUpdate(ps, id, riderId, riderName, riderEmail, now) ==
    IF ById(ps, id) = {} THEN ps
    ELSE [ps EXCEPT ![First(ById(ps, id))] =
                        Assigned(@, riderId, riderName, riderEmail, now)]

AssignRider(id, riderId, riderName, riderEmail) ==
    IF FalsyId(riderId) \/ Falsy(riderName)
    THEN /\ last' = Reply("assignRider", 400)
         /\ UNCHANGED <<users, riders, parcels, tracking,
                        payments, conn, inflight, clock>>
    ELSE IF ~ObjectIdIsValid(id)
    THEN \* new ObjectId(id) throws before the first update
         /\ last' = Reply("assignRider", 500)
         /\ UNCHANGED <<users, riders, parcels, tracking,
                        payments, conn, inflight, clock>>
    ELSE /\ parcels' = parcelUpdate(parcels, id, riderId, riderName,
                                    riderEmail, clock)
         /\ IF ~ObjectIdIsValid(riderId)
            THEN \* new ObjectId(riderId) throws after the first update
                 /\ riders' = riders
                 /\ last' = Reply("assignRider", 500)
            ELSE /\ riders' = riderUpdate(riders, riderId, id, clock)
                 /\ last' = AssignReply(modifiedCount(parcels, parcels'),
                                        modifiedCount(riders, riders'))
         /\ UNCHANGED <<users, tracking, payments, conn, inflight, clock>>

(***************************************************************************)
(* GET /tracking/:trackingId.  The server only reads the tracking          *)
(* collection; its events are written elsewhere and are there at start.    *)
(***************************************************************************)
TrackingIdInputs == {"", "TRK-1", "TRK-2", "TRK-9"}

EventTimes == {1, 2}

\* an event as its writer gives it: <<parcel_id, time>>
EventShapes == {Oid("parcels", 1), UnknownId} \X EventTimes

LoggedEvent(k, shape) ==
    [_id |-> Oid("tracking", k), parcel_id |-> shape[1], time |-> shape[2]]

TrackingLogs ==
    UNION { {[k \in 1..n |-> LoggedEvent(k, shapes[k])] :
                shapes \in [1..n -> EventShapes]} : n \in 0..MaxEvents }

ByTrackingId(ps, trackingId) ==
    {i \in 1..Len(ps) : ps[i].trackingId = trackingId}

\* find({parcel_id: parcel._id})
EventsOf(log, parcelId) == {k \in 1..Len(log) : log[k].parcel_id = parcelId}

Orderings(ks) ==
    {h \in [1..Cardinality(ks) -> ks] :
        \A i, j \in 1..Cardinality(ks) : i # j => h[i] # h[j]}

InAnyOrder(log, ks) == Orderings(ks)

\* sort({time: 1}): events of one time come in an order the store picks
SortedByTime(log, ks) ==
    {h \in Orderings(ks) :
        \A i, j \in 1..Cardinality(ks) :
            i < j => log[h[i]].time <= log[h[j]].time}

TrackingReply(parcel, log, h) ==
    [op |-> "getTracking", status |-> 200, parcel |-> parcel._id,
     history |-> [i \in 1..Len(h) |-> log[h[i]]._id]]

GetTracking(trackingId) ==
    LET hit == ByTrackingId(parcels, trackingId) IN
    /\ IF Falsy(trackingId)
       THEN last' = Reply("getTracking", 400)
       ELSE IF hit = {}
       THEN last' = Reply("getTracking", 404)
       ELSE LET parcel == parcels[First(hit)] IN
            \E h \in SortedByTime(tracking, EventsOf(tracking, parcel._id)) :
                last' = TrackingReply(parcel, tracking, h)
    /\ UNCHANGED <<users, riders, parcels, tracking,
                   payments, conn, inflight, clock>>

(***************************************************************************)
(* GET /riders/tasks and GET /riders/completed                             *)
(***************************************************************************)
\* sort({updatedAt: -1}): documents of one updatedAt keep their order
RECURSIVE LatestFirst(_)
LatestFirst(docs) ==
    IF docs = <<>> THEN <<>>
    ELSE LET rest == LatestFirst(Tail(docs))
             d == Head(docs)
             before == SelectSeq(rest, LAMBDA x : x.updatedAt > d.updatedAt)
             after == SelectSeq(rest, LAMBDA x : x.updatedAt <= d.updatedAt)
         IN before \o <<d>> \o after

\* {status: {$regex: /^In-Transit$/i}} or {status: {$regex: /^Pending$/i}}
TaskStatus(status) == toLowerCase(status) \in {"in-transit", "pending"}

CompletedStatusExact(status) == status = "delivered"

\* {status: {$regex: /^delivered$/i}}
CompletedStatus(status) == toLowerCase(status) = "delivered"

TasksOf(ps, email) ==
    SelectSeq(ps, LAMBDA p : /\ p.assignedRiderEmail = email
                             /\ TaskStatus(p.status))

CompletedOf(ps, email) ==
    SelectSeq(ps, LAMBDA p : /\ p.assignedRiderEmail = email
                             /\ CompletedStatus(p.status))

ListTasks(email) ==
    /\ LET found == LatestFirst(TasksOf(parcels, email)) IN
       last' = ListReply("listTasks", 200, Len(found), Ids(found))
    /\ UNCHANGED <<users, riders, parcels, tracking,
                   payments, conn, inflight, clock>>

ListCompleted(email) ==
    /\ IF Falsy(email)
       THEN last' = Reply("listCompleted", 400)
       ELSE last' = ListReply("listCompleted", 200, NoNum,
                              Ids(LatestFirst(CompletedOf(parcels, email))))
    /\ UNCHANGED <<users, riders, parcels, tracking,
                   payments, conn, inflight, clock>>

(***************************************************************************)
(* GET /payments                                                           *)
(***************************************************************************)
MaxPayments == 2

\* the payment records the collection holds, in the order of their insertion:
\* the k-th has id k and was created at time k
PaymentRecords == [payerEmail : Emails]

StoredPayment(rec, k) ==
    [_id |-> Oid("payments", k), payerEmail |-> rec.payerEmail,
     createdAt |-> k]

PaymentLogs ==
    UNION { { [k \in 1..n |-> StoredPayment(log[k], k)] :
                log \in [1..n -> PaymentRecords] } : n \in 0..MaxPayments }

\* find({payerEmail: email}).sort({createdAt: -1})
PaymentsOf(ps, email) ==
    NewestFirst(SelectSeq(ps, LAMBDA p : p.payerEmail = email))

ListPayments(email) ==
    /\ last' = ListReply("listPayments", 200, NoNum,
                         Ids(PaymentsOf(payments, email)))
    /\ UNCHANGED <<users, riders, parcels, tracking,
                   payments, conn, inflight, clock>>

(***************************************************************************)
(* connectDB (src/index.js).  Every handler, and initDbOnce at module      *)
(* load, calls it.  A call runs to its await in one step and resumes in    *)
(* another when its client has connected; cachedDb is 0 while it is null   *)
(* and the number of the cached client afterwards.                         *)
(***************************************************************************)
\* if (cachedDb) return {client: cachedClient, db: cachedDb}
CacheHit == cachedDb # 0

ConnectDBCall ==
    /\ Len(calls) < MaxCalls
    /\ IF CacheHit
       THEN /\ calls' = Append(calls, [pc |-> "returned", client |-> cachedDb])
            /\ UNCHANGED <<cachedDb, clients>>
       ELSE \* new MongoClient(uri, ...); await client.connect()
            /\ clients' = Append(clients, "connecting")
            /\ calls' = Append(calls, [pc |-> "awaiting",
                                      client |-> Len(clients) + 1])
            /\ UNCHANGED cachedDb
    /\ UNCHANGED <<users, riders, parcels, tracking, payments, inflight,
                   clock, last>>

\* after the await: cachedClient = client; cachedDb = db; return {client, db}
ConnectDBResume(k) ==
    /\ calls[k].pc = "awaiting"
    /\ clients' = [clients EXCEPT ![calls[k].client] = "connected"]
    /\ cachedDb' = calls[k].client
    /\ calls' = [calls EXCEPT ![k].pc = "returned"]
    /\ UNCHANGED <<users, riders, parcels, tracking, payments, inflight,
                   clock, last>>

\* the server once the connect begun at module load has completed
Init ==
    /\ users = <<>>
    /\ riders = <<>>
    /\ parcels = <<>>
    /\ tracking = <<>>
    /\ payments = <<>>
    /\ cachedDb = 1
    /\ clients = <<"connected">>
    /\ calls = <<[pc |-> "returned", client |-> 1]>>
    /\ inflight = EmptyBag
    /\ clock = 0
    /\ last = [op |-> "none", status |-> 0]

NextUsers ==
    \/ Tick
    \/ \E body \in UserBodies : UpsertOnLogin(body)
    \/ \E cmd \in BagToSet(inflight) : UpsertInsert(cmd)

SpecUsers == Init /\ [][NextUsers]_vars

NextRoles ==
    \/ \E body \in UserBodies : UpsertOnLogin(body)
    \/ \E cmd \in BagToSet(inflight) : UpsertInsert(cmd)
    \/ \E h \in AuthHeaders, id \in UserIdInputs, role \in RoleInputs :
          SetRole(h, id, role)

SpecRoles == Init /\ [][NextRoles]_vars

\* logins that supply an email and nothing else
PlainLogins == {b \in UserBodies : b.email \in Emails /\ b.role = undefined}

NextRiders ==
    \/ \E body \in PlainLogins : UpsertOnLogin(body)
    \/ \E cmd \in BagToSet(inflight) : UpsertInsert(cmd)
    \/ \E body \in RiderBodies : RiderRegister(body)
    \/ \E id \in RiderIdInputs, status \in RiderStatusInputs,
          email \in Emails \cup {undefined} :
          RiderSetStatus(id, status, email)

SpecRiders == Init /\ [][NextRiders]_vars

NextDistricts ==
    \/ \E body \in RiderBodies : RiderRegister(body)
    \/ \E id \in RiderIdInputs, status \in RiderStatusInputs,
          email \in Emails \cup {undefined} :
          RiderSetStatus(id, status, email)
    \/ \E district \in DistrictQueries : ListByDistrict(district)
    \/ ListPending
    \/ ListActive

SpecDistricts == Init /\ [][NextDistricts]_vars

NextAuth ==
    \/ \E body \in PlainLogins : UpsertOnLogin(body)
    \/ \E cmd \in BagToSet(inflight) : UpsertInsert(cmd)
    \/ \E h \in AuthHeaders, id \in UserIdInputs, role \in RoleInputs :
          SetRole(h, id, role)
    \/ \E h \in AuthHeaders : ListAll(h)
    \/ \E h \in AuthHeaders, email \in Emails \cup {undefined} :
          ListForCreator(h, email)
    \/ \E h \in AuthHeaders, body \in ParcelBodies : Create(h, body)

SpecAuth == Init /\ [][NextAuth]_vars

NextParcels ==
    \/ \E h \in AuthHeaders, body \in ParcelBodies : Create(h, body)
    \/ \E parcelId \in ParcelIdInputs \cup {NoId},
          paymentIntentId \in IntentIdInputs, pi \in RetrieveOutcomes :
          ConfirmPayment(parcelId, paymentIntentId, pi)
    \/ \E id \in ParcelIdInputs, status \in ParcelStatusInputs :
          ParcelSetStatus(id, status)

SpecParcels == Init /\ [][NextParcels]_vars

NextAssign ==
    \/ Tick
    \/ \E h \in AuthHeaders, body \in ParcelBodies : Create(h, body)
    \/ \E body \in RiderBodies : RiderRegister(body)
    \/ \E id \in ParcelIdInputs, riderId \in AssignRiderIds,
          riderName \in RiderNames :
          AssignRider(id, riderId, riderName, "a@x.io")

SpecAssign == Init /\ [][NextAssign]_vars

\* what the tracking collection holds when the server starts serving
InitTracking ==
    /\ users = <<>>
    /\ riders = <<>>
    /\ parcels = <<>>
    /\ tracking \in TrackingLogs
    /\ payments = <<>>
    /\ cachedDb = 1
    /\ clients = <<"connected">>
    /\ calls = <<[pc |-> "returned", client |-> 1]>>
    /\ inflight = EmptyBag
    /\ clock = 0
    /\ last = [op |-> "none", status |-> 0]

NextTracking ==
    \/ \E h \in AuthHeaders, body \in ParcelBodies : Create(h, body)
    \/ \E trackingId \in TrackingIdInputs : GetTracking(trackingId)

SpecTracking == InitTracking /\ [][NextTracking]_vars

\* one body with status "Pending" and one without a status
TaskBodies == {b \in ParcelBodies : b.trackingId = "TRK-1"}

\* no rider is registered here: every rider id is one that matches no rider
AbsentRiderIds == {UnknownId, MalformedId, NoId}

NextTasks ==
    \/ \E h \in AuthHeaders, body \in TaskBodies : Create(h, body)
    \/ \E id \in ParcelIdInputs, riderId \in AbsentRiderIds,
          riderName \in RiderNames :
          AssignRider(id, riderId, riderName, "a@x.io")
    \/ \E id \in ParcelIdInputs, status \in ParcelStatusInputs :
          ParcelSetStatus(id, status)
    \/ \E email \in Emails \cup {undefined} : ListTasks(email)
    \/ \E email \in Emails \cup {undefined} : ListCompleted(email)

SpecTasks == Init /\ [][NextTasks]_vars

NextStatus ==
    \/ Tick
    \/ \E h \in AuthHeaders, body \in TaskBodies : Create(h, body)
    \/ \E id \in ParcelIdInputs, status \in ParcelStatusInputs :
          ParcelSetStatus(id, status)

SpecStatus == Init /\ [][NextStatus]_vars

\* what the payments collection holds when the server starts serving
InitPayments ==
    /\ users = <<>>
    /\ riders = <<>>
    /\ parcels = <<>>
    /\ tracking = <<>>
    /\ payments \in PaymentLogs
    /\ cachedDb = 1
    /\ clients = <<"connected">>
    /\ calls = <<[pc |-> "returned", client |-> 1]>>
    /\ inflight = EmptyBag
    /\ clock = 0
    /\ last = [op |-> "none", status |-> 0]

NextPayments ==
    \/ Tick
    \/ \E body \in TaskBodies : Create(<<"Bearer", "token-A">>, body)
    \/ \E parcelId \in ParcelIdInputs \cup {NoId},
          paymentIntentId \in IntentIdInputs, pi \in RetrieveOutcomes :
          ConfirmPayment(parcelId, paymentIntentId, pi)
    \/ \E email \in Emails \cup {undefined} : ListPayments(email)

SpecPayments == InitPayments /\ [][NextPayments]_vars

\* one parcel body, one rider registration, the approval of a rider and the
\* statuses that close a parcel
PendingBodies == {b \in TaskBodies : b.status = "Pending"}

FirstRiderBodies == {b \in RiderBodies : b.status = "pending"}

ReviewStatuses == {"active"}

ClosingStatuses == {"Delivered", "Cancelled"}

NextPaid ==
    \/ \E body \in PendingBodies : Create(<<"Bearer", "token-A">>, body)
    \/ \E parcelId \in ParcelIdInputs \cup {NoId},
          paymentIntentId \in IntentIdInputs, pi \in RetrieveOutcomes :
          ConfirmPayment(parcelId, paymentIntentId, pi)
    \/ \E id \in ParcelIdInputs :
          AssignRider(id, Oid("riders", 1), "Rana", "a@x.io")
    \/ \E id \in ParcelIdInputs, status \in ClosingStatuses :
          ParcelSetStatus(id, status)
    \/ \E body \in FirstRiderBodies : RiderRegister(body)
    \/ \E id \in RiderIdInputs, status \in ReviewStatuses :
          RiderSetStatus(id, status, "a@x.io")

SpecPaid == Init /\ [][NextPaid]_vars

\* parcel bodies with neither district, the rider's only, the receiver's
\* only, and both
DistrictBodies ==
    { [b EXCEPT !.riderDistrict = rd, !.receiverDistrict = cd] :
          b \in TaskBodies, rd \in {NoText, Dhaka}, cd \in {NoText, Sylhet} }

NextEarning ==
    \/ \E body \in DistrictBodies : Create(<<"Bearer", "token-A">>, body)
    \/ \E id \in ParcelIdInputs, status \in ParcelStatusInputs :
          ParcelSetStatus(id, status)

SpecEarning == Init /\ [][NextEarning]_vars

\* module load: initDbOnce() has called connectDB, which awaits its connect
InitLoad ==
    /\ users = <<>>
    /\ riders = <<>>
    /\ parcels = <<>>
    /\ tracking = <<>>
    /\ payments = <<>>
    /\ cachedDb = 0
    /\ clients = <<"connecting">>
    /\ calls = <<[pc |-> "awaiting", client |-> 1]>>
    /\ inflight = EmptyBag
    /\ clock = 0
    /\ last = [op |-> "none", status |-> 0]

NextConnect ==
    \/ ConnectDBCall
    \/ \E k \in 1..Len(calls) : ConnectDBResume(k)

SpecConnect == InitLoad /\ [][NextConnect]_vars

(***************************************************************************)
(* Properties of the user directory.                                       *)
(***************************************************************************)
HasUser(email) == \E i \in 1..Len(users) : users[i].email = email

EmailUnique ==
    \A i, j \in 1..Len(users) : users[i].email = users[j].email => i = j

\* this step created no user, and changed no field of any user except the
\* lastLogin of the records with the email
OnlyLastLoginOf(email) ==
    /\ Len(users') = Len(users)
    /\ \A i \in 1..Len(users) :
          users'[i] = IF users[i].email = email
                      THEN [users[i] EXCEPT !.lastLogin = users'[i].lastLogin]
                      ELSE users[i]

RefreshStep ==
    \A body \in UserBodies :
        UpsertOnLogin(body) /\ HasUser(body.email) =>
            /\ OnlyLastLoginOf(body.email)
            /\ \A i \in 1..Len(users) :
                  users[i].email = body.email => users'[i].lastLogin = clock
            /\ inflight' = inflight
            /\ last'.status = 200

RaceLoserStep ==
    \A cmd \in BagToSet(inflight) :
        UpsertInsert(cmd) /\ HasUser(cmd.email) =>
            /\ OnlyLastLoginOf(cmd.email)
            /\ last'.status \in {200, 409}

SuppliedOrUser(role) == IF role \in {undefined, ""} THEN "user" ELSE role

CreateRequestStep ==
    \A body \in UserBodies :
        UpsertOnLogin(body) =>
            IF body.email \in {undefined, ""}
            THEN last'.status = 400 /\ users' = users /\ inflight' = inflight
            ELSE ~HasUser(body.email) =>
                    /\ users' = users
                    /\ \E cmd \in BagToSet(inflight') :
                          /\ inflight' = inflight (+) SetToBag({cmd})
                          /\ cmd.email = body.email
                          /\ cmd.setOnInsert.email = body.email
                          /\ cmd.setOnInsert.role = SuppliedOrUser(body.role)

CreateInsertStep ==
    \A cmd \in BagToSet(inflight) :
        UpsertInsert(cmd) /\ ~HasUser(cmd.email) =>
            /\ Len(users') = Len(users) + 1
            /\ SubSeq(users', 1, Len(users)) = users
            /\ users'[Len(users')].email = cmd.email
            /\ users'[Len(users')].role = cmd.setOnInsert.role
            /\ last'.status = 201

SetRoleStep ==
    \A h \in {a \in AuthHeaders : verifyToken(a) = 0},
       id \in UserIdInputs, role \in RoleInputs :
        SetRole(h, id, role) =>
            LET argsOk == /\ id # MalformedId
                          /\ role \notin {undefined, ""}
                          /\ toLowerCase(role) \in {"user", "admin", "rider"}
                found == \E i \in 1..Len(users) : users[i]._id = id
            IN IF argsOk /\ found
               THEN /\ last'.status = 200
                    /\ Len(users') = Len(users)
                    /\ \A i \in 1..Len(users) :
                          users'[i] = IF users[i]._id = id
                                      THEN [users[i] EXCEPT
                                              !.role = toLowerCase(role)]
                                      ELSE users[i]
               ELSE /\ users' = users
                    /\ last'.status = IF argsOk THEN 404 ELSE 400

\* C10: an authorised setRole(id, role) changes a user exactly when id is
\* well-formed, role is one of user/admin/rider up to case and a user with
\* that id exists; it then stores the lower-cased role in that user alone and
\* answers 200.  A malformed id, a missing role or a role outside the set
\* answers 400, an unknown id 404, and then no user record changes.
C10_SetRoleValidated == [][SetRoleStep]_vars

\* a role given in capitals was stored lower-cased
C10_RoleStoredLowerCased ==
    /\ last.op = "setRole"
    /\ last.status = 200
    /\ \E i \in 1..Len(users) : users[i].role = "admin"

(***************************************************************************)
(* Properties of the rider directory.                                      *)
(***************************************************************************)
ActivateStep ==
    last'.op = "riderSetStatus" =>
    \A id \in {riders[i]._id : i \in 1..Len(riders)}, email \in Emails :
        RiderSetStatus(id, "active", email) =>
            /\ last'.status = 200
            /\ Len(riders') = Len(riders)
            /\ \A i \in 1..Len(riders) :
                  riders'[i] = IF riders[i]._id = id
                               THEN [riders[i] EXCEPT !.status = "active"]
                               ELSE riders[i]
            /\ Len(users') = Len(users)
            /\ \A i \in 1..Len(users) :
                  users'[i] = IF users[i].email = email
                              THEN [users[i] EXCEPT !.role = "rider"]
                              ELSE users[i]

\* C6: rider setStatus(id, "active", email) on an existing rider answers 200
\* and sets that rider's status to "active"; the user with that email, if
\* there is one, gets role "rider", and no other rider or user changes; with
\* no such user the rider is updated and the call answers 200 all the same.
C6_ActivatePromotesUser == [][ActivateStep]_vars

\* a rider was activated and the user with the request's email became a rider
C6_RiderActivated ==
    /\ last.op = "riderSetStatus"
    /\ last.status = 200
    /\ \E i \in 1..Len(riders) : riders[i].status = "active"
    /\ \E i \in 1..Len(users) : users[i].role = "rider"

PlainQueries == {d \in DistrictQueries : d # NoText /\ d # <<>> /\ ValidRegex(d)}

MatchingRiders(district) ==
    {i \in 1..Len(riders) :
        /\ RegexMatchI(riders[i].district, Trim(district))
        /\ riders[i].status \in {"active", "Active", "approved", "Approved"}}

ByDistrictStep ==
    \A district \in PlainQueries :
        ListByDistrict(district) =>
            IF MatchingRiders(district) = {}
            THEN /\ last'.status = 404
                 /\ last'.data = <<>>
                 /\ last'.count = 0
            ELSE /\ last'.status = 200
                 /\ last'.count = Cardinality(MatchingRiders(district))
                 /\ last'.count = Len(last'.data)

\* C9: listByDistrict with no active-variant rider matching the district
\* answers 404, not 500, with an empty data list and count = 0; with a match
\* it answers 200 with count the number of riders returned.
C9_EmptyResultCountsZero == [][ByDistrictStep]_vars

(***************************************************************************)
(* Properties of the protected routes.                                     *)
(***************************************************************************)
NoToken(h) == Len(h) < 2 \/ h[2] = ""

StoreUnchanged ==
    /\ users' = users
    /\ riders' = riders
    /\ parcels' = parcels
    /\ tracking' = tracking
    /\ payments' = payments
    /\ inflight' = inflight

ProtectedRoutes == {"setRole", "listAll", "listForCreator", "create"}

\* the exchange just completed on a protected route
Answered == last' # last /\ last'.op \in ProtectedRoutes

RefusedStep ==
    Answered /\ (NoToken(last'.auth) \/ last'.auth[2] \notin ValidTokens) =>
        /\ last'.status = IF NoToken(last'.auth) THEN 401 ELSE 403
        /\ DOMAIN last' = {"op", "auth", "status"}
        /\ StoreUnchanged

HandlerRanStep ==
    Answered /\ (last'.status \notin {401, 403} \/ ~StoreUnchanged) =>
        /\ ~NoToken(last'.auth)
        /\ last'.auth[2] \in ValidTokens

\* C7: on PATCH /users/:id/role, GET /users, GET /parcels and POST /parcels a
\* request without an Authorization header or without a token after the
\* scheme is answered 401 and one whose token the verifier rejects 403; the
\* response then carries no data and no collection changes, so a handler's
\* answer or write is only seen for a token the verifier accepted.
C7_ProtectedRoutesGated == [][RefusedStep /\ HandlerRanStep]_vars

\* a listing of existing users was refused for a forged token
C7_ForgedTokenRefused ==
    /\ last.op = "listAll"
    /\ last.auth = <<"Bearer", "forged">>
    /\ last.status = 403
    /\ Len(users) > 0

(***************************************************************************)
(* Properties of the parcel lifecycle.                                     *)
(***************************************************************************)
PaymentStatusKept ==
    /\ Len(parcels') = Len(parcels)
    /\ \A i \in 1..Len(parcels) :
          parcels'[i].paymentStatus = parcels[i].paymentStatus

\* the call failed and no paymentStatus changed
ConfirmRefused == last'.status \in {400, 500} /\ PaymentStatusKept

\* the call succeeded and exactly the addressed parcel is now Paid
ConfirmRecorded(parcelId) ==
    /\ last'.status = 200
    /\ Len(parcels') = Len(parcels)
    /\ \A i \in 1..Len(parcels) :
          parcels'[i].paymentStatus =
              IF parcels[i]._id = parcelId THEN "Paid"
              ELSE parcels[i].paymentStatus

ConfirmStep ==
    last'.op = "confirmPayment" =>
    LET refused == ConfirmRefused IN
    \A parcelId \in ParcelIdInputs \cup {NoId},
       paymentIntentId \in IntentIdInputs, pi \in RetrieveOutcomes :
        \/ IF parcelId # NoId /\ paymentIntentId # undefined
                 /\ pi = "succeeded"
           THEN ConfirmRecorded(parcelId)
           ELSE refused
        \/ ~ConfirmPayment(parcelId, paymentIntentId, pi)

BecamePaid ==
    \E i \in 1..Len(parcels) :
        parcels'[i].paymentStatus = "Paid" /\ parcels[i].paymentStatus # "Paid"

PaidOnlyWhenSucceeded ==
    Len(parcels') = Len(parcels) /\ BecamePaid =>
        \E parcelId \in ParcelIdInputs, paymentIntentId \in IntentIdInputs :
            ConfirmPayment(parcelId, paymentIntentId, "succeeded")

\* C3: POST /payments/confirm marks the parcel with the given id Paid and
\* answers 200 when parcelId and paymentIntentId are given and the payment
\* adapter reports the intent "succeeded"; when either is missing, or the
\* adapter throws, returns nothing or reports any other state, the call
\* answers 400 or 500 and no parcel's paymentStatus changes.  No existing
\* parcel becomes Paid by any other step.
C3_PaidOnlySucceeded == [][ConfirmStep /\ PaidOnlyWhenSucceeded]_vars

\* a parcel created Unpaid was marked Paid by a confirmation
C3_ParcelMarkedPaid ==
    /\ last.op = "confirmPayment"
    /\ last.status = 200
    /\ \E i \in 1..Len(parcels) :
          parcels[i].paymentStatus = "Paid" /\ parcels[i].deliveryCost = 100

\* deliveryCost, 0 when absent
CostOrZero(p) == IF p.deliveryCost = NoNum THEN 0 ELSE p.deliveryCost

SameDistrictIgnoringCase(p) ==
    LowerText(p.riderDistrict) = LowerText(p.receiverDistrict)

DeliveredStep ==
    last'.op = "parcelSetStatus" =>
    \A id \in {parcels[i]._id : i \in 1..Len(parcels)},
       status \in ParcelStatusInputs :
        ParcelSetStatus(id, status) =>
            \A i \in 1..Len(parcels) :
                IF parcels[i]._id = id /\ status # undefined
                      /\ toLowerCase(status) = "delivered"
                THEN /\ 10 * parcels'[i].riderEarning =
                            CostOrZero(parcels[i])
                              * (IF SameDistrictIgnoringCase(parcels[i])
                                 THEN 3 ELSE 8)
                     /\ CostOrZero(parcels[i]) = 100 =>
                            parcels'[i].riderEarning =
                                IF SameDistrictIgnoringCase(parcels[i])
                                THEN 30 ELSE 80
                ELSE parcels'[i].riderEarning = parcels[i].riderEarning

\* C4: PATCH /parcels/:id/status on an existing parcel with a status equal to
\* "delivered" up to letter case leaves the parcel with riderEarning = 30% of
\* its deliveryCost when riderDistrict and receiverDistrict are equal up to
\* letter case and 80% otherwise, an absent deliveryCost counting as 0 (cost
\* 100 gives 30 and 80); with any other status the parcel's riderEarning is
\* what it was.
C4_DeliveredEarning == [][DeliveredStep]_vars

\* a parcel of cost 100 whose districts differ only in case earned 30
C4_SameDistrictEarnedThirty ==
    /\ last.op = "parcelSetStatus"
    /\ last.status = 200
    /\ \E i \in 1..Len(parcels) :
          /\ toLowerCase(parcels[i].status) = "delivered"
          /\ parcels[i].riderDistrict # parcels[i].receiverDistrict
          /\ parcels[i].deliveryCost = 100
          /\ parcels[i].riderEarning = 30

RiderPutOnDelivery(id, riderId) ==
    /\ Len(riders') = Len(riders)
    /\ \A i \in 1..Len(riders) :
          IF riders[i]._id = riderId
          THEN /\ riders'[i].workStatus = "Delivery"
               /\ riders'[i].lastAssignedParcel = id
          ELSE riders'[i] = riders[i]
    /\ last'.status = 200
    /\ {"parcelModified", "riderModified"} \subseteq DOMAIN last'
    /\ last'.parcelModified = 0
    /\ parcels' = parcels

UnmatchedParcelStep(ids) ==
    \A id \in ids, riderId \in AssignRiderIds :
        AssignRider(id, riderId, "Rana", "a@x.io")
          /\ (\A i \in 1..Len(parcels) : parcels[i]._id # id)
          /\ (\E i \in 1..Len(riders) : riders[i]._id = riderId) =>
            RiderPutOnDelivery(id, riderId)

\* C5 as stated: PATCH /parcels/:id/assign with any parcel id that matches no
\* parcel, and the id of an existing rider, still sets that rider's
\* workStatus to "Delivery" and lastAssignedParcel to the id, and answers
\* with both parcelModified and riderModified.
C5_UnmatchedParcelRiderUpdated == [][UnmatchedParcelStep(ParcelIdInputs)]_vars

MalformedParcelStep ==
    \A riderId \in AssignRiderIds \ {NoId} :
        AssignRider(MalformedId, riderId, "Rana", "a@x.io") =>
            /\ last'.status = 500
            /\ DOMAIN last' = {"op", "status"}
            /\ riders' = riders
            /\ parcels' = parcels

\* C5 restricted to ids the store can look up: PATCH /parcels/:id/assign with a
\* well-formed parcel id that matches no parcel, and the id of an existing
\* rider, still sets that rider's workStatus to "Delivery" and
\* lastAssignedParcel to the id, changes no parcel, and answers 200 with
\* parcelModified = 0 and riderModified.  With a parcel id that is not
\* well-formed, a rider id and a rider name, the call answers 500 and updates
\* neither the parcel nor the rider.
C5_WellFormedUnmatchedRiderUpdated ==
    [][UnmatchedParcelStep({id \in ParcelIdInputs : ObjectIdIsValid(id)})
         /\ MalformedParcelStep]_vars

\* a rider was put on delivery for a parcel that does not exist
C5_RiderOnDeliveryForNoParcel ==
    /\ last.op = "assignRider"
    /\ last.status = 200
    /\ last.parcelModified = 0
    /\ last.riderModified = 1
    /\ \E i \in 1..Len(riders) :
          /\ riders[i].workStatus = "Delivery"
          /\ riders[i].lastAssignedParcel = UnknownId

(***************************************************************************)
(* Properties of the tracking lookup.                                      *)
(***************************************************************************)
Carriers(trackingId) ==
    {i \in 1..Len(parcels) : parcels[i].trackingId = trackingId}

HistoryOf(parcelId, history) ==
    /\ \A k \in 1..Len(tracking) :
          tracking[k].parcel_id = parcelId <=>
              \E n \in 1..Len(history) : history[n] = tracking[k]._id
    /\ \A m, n \in 1..Len(history) : m # n => history[m] # history[n]
    /\ \A n \in 1..Len(history) :
          \E k \in 1..Len(tracking) : tracking[k]._id = history[n]

TimeOf(eventId) ==
    (CHOOSE e \in {tracking[k] : k \in 1..Len(tracking)} : e._id = eventId).time

Ascending(history) ==
    \A m, n \in 1..Len(history) :
        m < n => TimeOf(history[m]) <= TimeOf(history[n])

TrackingStep ==
    \A trackingId \in TrackingIdInputs \ {""} :
        GetTracking(trackingId) =>
            IF Carriers(trackingId) = {}
            THEN last'.status = 404 /\ DOMAIN last' = {"op", "status"}
            ELSE /\ last'.status = 200
                 /\ \E i \in Carriers(trackingId) :
                       last'.parcel = parcels[i]._id
                 /\ HistoryOf(last'.parcel, last'.history)
                 /\ Ascending(last'.history)

\* C8: GET /tracking/:trackingId answers 404 when no parcel carries the
\* tracking id; when one does it answers 200 with that parcel and a history
\* holding exactly the tracking events whose parcel_id is that parcel's id,
\* each once, in ascending time order; a parcel without events gets 200 and
\* an empty history.
C8_TrackingHistory == [][TrackingStep]_vars

\* events logged out of time order, among another parcel's, came back sorted
C8_HistoryReordered ==
    /\ last.op = "getTracking"
    /\ last.status = 200
    /\ Len(last.history) = 2
    /\ Len(tracking) = 3
    /\ last.history[1][2] > last.history[2][2]

(***************************************************************************)
(* Invariants of the data model.                                           *)
(***************************************************************************)
\* C11: in every reachable state every user record's role is one of "user",
\* "admin" and "rider".
C11_RoleInAllowedSet ==
    \A i \in 1..Len(users) : users[i].role \in {"user", "admin", "rider"}

\* parcel i carries a riderEarning after the step that it did not carry before
EarningProduced(i) ==
    /\ parcels'[i].riderEarning # NoNum
    /\ \/ i > Len(parcels)
       \/ parcels'[i].riderEarning # parcels[i].riderEarning

EarningFromDeliveryStep ==
    \A i \in 1..Len(parcels') :
        EarningProduced(i) =>
            /\ i <= Len(parcels)
            /\ \E status \in ParcelStatusInputs \ {undefined} :
                  /\ toLowerCase(status) = "delivered"
                  /\ ParcelSetStatus(parcels[i]._id, status)

\* C12: a parcel comes to carry a riderEarning value only by a parcel
\* setStatus step that sets its status to "delivered" up to letter case; no
\* other step (create, confirmPayment) produces a parcel with a riderEarning
\* or changes one.
C12_EarningOnlyFromDelivery == [][EarningFromDeliveryStep]_vars

(***************************************************************************)
(* Properties of parcel creation.                                          *)
(***************************************************************************)
VerbatimFields ==
    {"createdByEmail", "status", "riderDistrict", "receiverDistrict",
     "deliveryCost", "riderEarning", "trackingId"}

\* the parcel an accepted POST /parcels has just stored
Stored == parcels'[Len(parcels')]

StampedAndVerbatim(body) ==
    /\ last'.status = 201
    /\ Len(parcels') = Len(parcels) + 1
    /\ \A i \in 1..Len(parcels) : parcels'[i] = parcels[i]
    /\ Stored.createdAt = clock
    /\ Stored.updatedAt = clock
    /\ \A f \in VerbatimFields : Stored[f] = body[f]

CreateStepAsStated ==
    last'.op = "create" =>
    \A h \in {a \in AuthHeaders : verifyToken(a) = 0}, body \in ParcelBodies :
        Create(h, body) =>
            /\ StampedAndVerbatim(body)
            /\ Stored.paymentStatus =
                   IF body.paymentStatus = undefined THEN "Unpaid"
                   ELSE body.paymentStatus
            /\ body.createdAtReadable # NoNum =>
                   Stored.createdAtReadable = body.createdAtReadable

\* C13 as stated: an accepted POST /parcels stores paymentStatus "Unpaid" when
\* the body has no paymentStatus and the body's value when it has one; stamps
\* createdAt and updatedAt with the server's time whatever the body says; and
\* stores every other field of the body unchanged.
C13_CreateStoresSupplied == [][CreateStepAsStated]_vars

CreateStep ==
    last'.op = "create" =>
    \A h \in {a \in AuthHeaders : verifyToken(a) = 0}, body \in ParcelBodies :
        Create(h, body) =>
            /\ StampedAndVerbatim(body)
            /\ Stored.paymentStatus =
                   IF body.paymentStatus \in {undefined, null, ""}
                   THEN "Unpaid" ELSE body.paymentStatus
            /\ Stored.createdAtReadable =
                   IF body.createdAtReadable \in {NoNum, 0}
                   THEN clock ELSE body.createdAtReadable

\* C13 with the defaults as the code applies them: an accepted POST /parcels
\* stores paymentStatus "Unpaid" when the body's paymentStatus is absent or
\* falsy (empty) and the body's value otherwise; stamps createdAt and
\* updatedAt with the server's time whatever the body says; stores
\* createdAtReadable as the server's time when the body's is absent or falsy
\* and as given otherwise; and stores every other field of the body
\* unchanged.
C13_CreateDefaultsFalsy == [][CreateStep]_vars

\* a body with its own paymentStatus and stamps was stored: value kept,
\* stamps replaced
C13_StampsReplaced ==
    /\ last.op = "create"
    /\ last.status = 201
    /\ \E i \in 1..Len(parcels) :
          /\ parcels[i].paymentStatus = "Paid"
          /\ parcels[i].riderEarning = 7
          /\ parcels[i].createdAtReadable = 9
          /\ parcels[i].createdAt = clock
          /\ parcels[i].updatedAt # 9

(***************************************************************************)
(* Properties of the rider approval workflow.                              *)
(***************************************************************************)
AnyStatusStep ==
    last'.op = "riderSetStatus" =>
    \A id \in {riders[i]._id : i \in 1..Len(riders)},
       status \in RiderStatusInputs \ {undefined}, email \in Emails :
        RiderSetStatus(id, status, email) =>
            /\ last'.status = 200
            /\ Len(riders') = Len(riders)
            /\ \A i \in 1..Len(riders) :
                  riders'[i] = IF riders[i]._id = id
                               THEN [riders[i] EXCEPT
                                       !.status = toLowerCase(status)]
                               ELSE riders[i]

\* C14: PATCH /riders/:id with the id of an existing rider, any non-empty
\* status and a non-empty email stores the lower-cased status on that rider
\* and answers 200, whether or not a user has that email and whether or not
\* the status is one of active, pending and rejected.
C14_AnyStatusSucceeds == [][AnyStatusStep]_vars

\* the role rider setStatus gives the linked user on entering a status
RoleOnEntering(status) ==
    IF toLowerCase(status) = "active" THEN "rider" ELSE "user"

LinkedUserStep ==
    last'.op = "riderSetStatus" =>
    \A r \in 1..Len(riders), status \in {"active", "Pending", "Rejected"},
       email \in Emails :
        RiderSetStatus(riders[r]._id, status, email) =>
            /\ Len(users') = Len(users)
            /\ \A u \in 1..Len(users) :
                  users'[u] = IF users[u].email = riders[r].email
                              THEN [users[u] EXCEPT
                                      !.role = RoleOnEntering(status)]
                              ELSE users[u]

\* C15: PATCH /riders/:id changes the role of the user whose email is that of
\* the rider being updated, to "rider" on entering "active" and to "user" on
\* entering "pending" or "rejected", and changes no other user.
C15_OnlyLinkedUserChanges == [][LinkedUserStep]_vars

(***************************************************************************)
(* Properties of the cached connection.                                    *)
(***************************************************************************)
\* C16: at most one store client is ever created and connected, however the
\* connectDB calls interleave, and every connectDB call that has returned
\* returned that one handle.
C16_OneClientPerProcess ==
    /\ Len(clients) <= 1
    /\ \A k \in 1..Len(calls) : calls[k].pc = "returned" => calls[k].client = 1

(***************************************************************************)
(* Properties of the rider's task lists.                                   *)
(***************************************************************************)
\* the ids a listing has just answered with
Listed == {last'.data[n] : n \in 1..Len(last'.data)}

AssignedWith(email, statuses) ==
    {parcels[i]._id : i \in {j \in 1..Len(parcels) :
        /\ parcels[j].assignedRiderEmail = email
        /\ toLowerCase(parcels[j].status) \in statuses}}

ListingStep ==
    /\ last'.op = "listTasks" =>
          \A email \in Emails \cup {undefined} :
              ListTasks(email) =>
                  /\ last'.status = 200
                  /\ Len(last'.data) = Cardinality(Listed)
                  /\ Listed = AssignedWith(email, {"in-transit", "pending"})
    /\ last'.op = "listCompleted" =>
          \A email \in Emails :
              ListCompleted(email) =>
                  /\ last'.status = 200
                  /\ Len(last'.data) = Cardinality(Listed)
                  /\ Listed = AssignedWith(email, {"delivered"})

\* what the two listings would answer for email in the state after the step
InTasksAfter(id, email) ==
    \E n \in 1..Len(TasksOf(parcels', email)) :
        TasksOf(parcels', email)[n]._id = id

InCompletedAfter(id, email) ==
    \E n \in 1..Len(CompletedOf(parcels', email)) :
        CompletedOf(parcels', email)[n]._id = id

AssignedIsTaskStep ==
    last'.op = "assignRider" /\ last'.status = 200 =>
    \A i \in 1..Len(parcels), riderId \in AssignRiderIds :
        AssignRider(parcels[i]._id, riderId, "Rana", "a@x.io") =>
            /\ InTasksAfter(parcels[i]._id, "a@x.io")
            /\ ~InCompletedAfter(parcels[i]._id, "a@x.io")

DeliveredIsCompletedStep ==
    last'.op = "parcelSetStatus" =>
    \A i \in 1..Len(parcels) :
        /\ parcels[i].assignedRiderEmail # undefined
        /\ ParcelSetStatus(parcels[i]._id, "Delivered")
        => /\ InCompletedAfter(parcels[i]._id, parcels[i].assignedRiderEmail)
           /\ ~InTasksAfter(parcels[i]._id, parcels[i].assignedRiderEmail)

\* C17: GET /riders/tasks?email answers with exactly the parcels whose
\* assignedRiderEmail is email and whose status is "In-Transit" or "Pending"
\* up to letter case, and GET /riders/completed?email with exactly those
\* whose assignedRiderEmail is email and whose status is "delivered" up to
\* letter case.  So a parcel just assigned with riderEmail email is in the
\* tasks of email and not in its completed list, and an assigned parcel just
\* set to "Delivered" is in the completed list of its rider's email and not
\* in its tasks.
C17_TaskLists ==
    [][ListingStep /\ AssignedIsTaskStep /\ DeliveredIsCompletedStep]_vars

\* a parcel assigned and then delivered is listed as completed
C17_DeliveredListedCompleted ==
    /\ last.op = "listCompleted"
    /\ last.status = 200
    /\ Len(last.data) = 1
    /\ \E i \in 1..Len(parcels) :
          /\ parcels[i]._id = last.data[1]
          /\ parcels[i].status = "Delivered"
          /\ parcels[i].assignedRiderEmail = "a@x.io"
          /\ parcels[i].assignedAt # NoNum

(***************************************************************************)
(* Properties of the assignment's two writes.                              *)
(***************************************************************************)
NoRollbackStep ==
    last'.op = "assignRider" =>
    \A i \in 1..Len(parcels), riderId \in AssignRiderIds \ {NoId} :
        AssignRider(parcels[i]._id, riderId, "Rana", "a@x.io") =>
            /\ parcels'[i].status = "In-Transit"
            /\ parcels'[i].assignedRiderId = riderId
            /\ (\A r \in 1..Len(riders) : riders[r]._id # riderId) =>
                  /\ riders' = riders
                  /\ last'.status =
                         IF ObjectIdIsValid(riderId) THEN 200 ELSE 500
                  /\ last'.status = 200 => last'.riderModified = 0

\* C18: PATCH /parcels/:id/assign on an existing parcel with a rider id and
\* name writes status "In-Transit" and assignedRiderId to the parcel whatever
\* becomes of the rider write: when the rider id matches no rider, or is
\* malformed so that the rider write throws, the parcel keeps the new
\* assignment and no rider record changes.
C18_ParcelWriteNotRolledBack == [][NoRollbackStep]_vars

\* a parcel is In-Transit for rider r and no rider record r is on delivery
\* with that parcel
C18_AssignedWithoutRider ==
    /\ last.op = "assignRider"
    /\ \E i \in 1..Len(parcels) :
          /\ parcels[i].status = "In-Transit"
          /\ parcels[i].assignedRiderId # NoId
          /\ \A r \in 1..Len(riders) :
                ~(/\ riders[r]._id = parcels[i].assignedRiderId
                  /\ riders[r].workStatus = "Delivery"
                  /\ riders[r].lastAssignedParcel = parcels[i]._id)

(***************************************************************************)
(* Properties of the parcel status route.                                  *)
(***************************************************************************)
\* the status the store holds for a request's status: undefined is stored
\* as null
StoredStatus(status) == IF status = undefined THEN null ELSE status

\* parcel i after the step differs from before in status, updatedAt and,
\* when asked, riderEarning only
OnlyStatusWritten(i, status) ==
    \E earning \in {parcels'[i].riderEarning} :
        parcels'[i] =
            [parcels[i] EXCEPT
               !.status = StoredStatus(status),
               !.updatedAt = clock,
               !.riderEarning =
                   IF status # undefined /\ toLowerCase(status) = "delivered"
                   THEN earning ELSE @]

StatusStep ==
    last'.op = "parcelSetStatus" =>
    \A id \in ParcelIdInputs, status \in ParcelStatusInputs :
        \/ ~ParcelSetStatus(id, status)
        \/ /\ Len(parcels') = Len(parcels)
           /\ IF id = MalformedId
              THEN last'.status = 400 /\ parcels' = parcels
              ELSE IF \A i \in 1..Len(parcels) : parcels[i]._id # id
              THEN last'.status = 404 /\ parcels' = parcels
              ELSE \A i \in 1..Len(parcels) :
                      IF parcels[i]._id = id
                      THEN OnlyStatusWritten(i, status)
                      ELSE parcels'[i] = parcels[i]

\* C19: PATCH /parcels/:id/status answers 400 for a malformed id and 404 for
\* a well-formed id that matches no parcel, and then no parcel is created or
\* changed; for the id of an existing parcel it writes that parcel's status
\* and updatedAt, its riderEarning too when the status is "delivered" up to
\* letter case, and no other field and no other parcel.
C19_StatusWritesStatusOnly == [][StatusStep]_vars

\* a later status change moved updatedAt and left createdAt where it was
C19_StatusChangedLater ==
    /\ last.op = "parcelSetStatus"
    /\ last.status = 200
    /\ \E i \in 1..Len(parcels) :
          /\ parcels[i].status = "Cancelled"
          /\ parcels[i].updatedAt = clock
          /\ parcels[i].createdAt < parcels[i].updatedAt

(***************************************************************************)
(* Properties of the payments collection.                                  *)
(***************************************************************************)
\* parcel i after the step differs from before in paymentStatus and
\* updatedAt only
OnlyPaymentWritten(i) ==
    parcels'[i] = [parcels[i] EXCEPT !.paymentStatus = "Paid",
                                     !.updatedAt = clock]

ConfirmWritesStep ==
    last'.op = "confirmPayment" =>
    \A parcelId \in ParcelIdInputs \cup {NoId},
       paymentIntentId \in IntentIdInputs, pi \in RetrieveOutcomes :
        \/ /\ Len(parcels') = Len(parcels)
           /\ \A i \in 1..Len(parcels) :
                 \/ parcels'[i] = parcels[i]
                 \/ /\ parcels[i]._id = parcelId
                    /\ last'.status = 200
                    /\ OnlyPaymentWritten(i)
        \/ ~ConfirmPayment(parcelId, paymentIntentId, pi)

PaymentsKeptStep ==
    /\ payments' = payments
    /\ ConfirmWritesStep

\* C20: no operation inserts, updates or deletes a record of the payments
\* collection, so the collection stays as it was at start, successful
\* confirmPayment calls included; and confirmPayment writes only the
\* paymentStatus and updatedAt of the parcel it matched.
C20_PaymentsNeverWritten == [][PaymentsKeptStep]_vars

\* a confirm that succeeded later than the parcel was created, with payment
\* records in the collection and none of them for this confirm
C20_PaidWithPaymentsKept ==
    /\ last.op = "confirmPayment"
    /\ last.status = 200
    /\ payments # <<>>
    /\ \E i \in 1..Len(parcels) :
          /\ parcels[i].paymentStatus = "Paid"
          /\ parcels[i].createdAt < parcels[i].updatedAt

(***************************************************************************)
(* Properties of the payment status over the parcel's life.                *)
(***************************************************************************)
IsPaid(parcel) == parcel.paymentStatus = "Paid"

PaidStaysStep ==
    /\ Len(parcels') >= Len(parcels)
    /\ \A i \in 1..Len(parcels) :
          /\ parcels'[i]._id = parcels[i]._id
          /\ IsPaid(parcels[i]) => IsPaid(parcels'[i])

\* C21: paymentStatus is monotone: once a parcel's paymentStatus is "Paid",
\* no create, assignRider, parcel setStatus, confirmPayment or rider
\* operation changes it back to "Unpaid" or to any other value.
C21_PaidStaysPaid == [][PaidStaysStep]_vars

\* a parcel marked Paid by a confirm, assigned to a rider and delivered
C21_PaidThenAssignedAndDelivered ==
    /\ last.op = "parcelSetStatus"
    /\ last.status = 200
    /\ \E i \in 1..Len(parcels) :
          /\ IsPaid(parcels[i])
          /\ parcels[i].status = "Delivered"
          /\ parcels[i].assignedRiderId # NoId
          /\ parcels[i].riderEarning # NoNum

(***************************************************************************)
(* Properties of a confirm whose intent has succeeded.                     *)
(***************************************************************************)
GivenParcelIds == {id \in ParcelIdInputs \cup {NoId} : ~FalsyId(id)}

GivenIntentIds == {id \in IntentIdInputs : ~Falsy(id)}

\* the answer is success; the parcel with the id, if there is one, is
\* written and every other parcel is as before
SucceededConfirmDone(parcelId) ==
    /\ last'.status = 200
    /\ Len(parcels') = Len(parcels)
    /\ \A i \in 1..Len(parcels) :
          IF parcels[i]._id = parcelId
          THEN OnlyPaymentWritten(i)
          ELSE parcels'[i] = parcels[i]

SucceededConfirmStep ==
    last'.op = "confirmPayment" =>
    \A parcelId \in GivenParcelIds, paymentIntentId \in GivenIntentIds :
        \/ SucceededConfirmDone(parcelId)
        \/ ~ConfirmPayment(parcelId, paymentIntentId, "succeeded")

\* C22: confirmPayment with a succeeded intent answers 200 whether or not a
\* parcel matches parcelId: with no match every parcel is unchanged and the
\* answer is still success; with a match exactly that parcel is written; the
\* intent is not checked to belong to the parcel, any succeeded intent
\* serves for any parcel id.
C22_SucceededConfirmAlwaysOk == [][SucceededConfirmStep]_vars

\* a confirm answered with success while every parcel there is stays unpaid
C22_SuccessWithoutMatch ==
    /\ last.op = "confirmPayment"
    /\ last.status = 200
    /\ parcels # <<>>
    /\ \A i \in 1..Len(parcels) : parcels[i].paymentStatus = "Unpaid"

(***************************************************************************)
(* Properties of an assignment over the parcel's status.                   *)
(***************************************************************************)
\* the parcel with the id is In-Transit after the step, with the
\* riderEarning and the paymentStatus it had
PutInTransit(id) ==
    \A i \in 1..Len(parcels) :
        parcels[i]._id = id =>
            /\ parcels'[i].status = "In-Transit"
            /\ parcels'[i].riderEarning = parcels[i].riderEarning
            /\ parcels'[i].paymentStatus = parcels[i].paymentStatus

ReassignStep ==
    last'.op = "assignRider" =>
    \A id \in ParcelIdInputs \ {MalformedId} :
        \/ PutInTransit(id)
        \/ ~AssignRider(id, Oid("riders", 1), "Rana", "a@x.io")

\* C23: assignRider sets the parcel's status to "In-Transit" whatever its
\* current status, a delivered parcel included, and leaves its riderEarning
\* and paymentStatus as they were.
C23_AssignPutsInTransit == [][ReassignStep]_vars

\* C23, the reachable state: a parcel that is In-Transit and still carries
\* the riderEarning of an earlier delivery
C23_InTransitWithEarning ==
    /\ last.op = "assignRider"
    /\ last.status = 200
    /\ \E i \in 1..Len(parcels) :
          /\ parcels[i].status = "In-Transit"
          /\ parcels[i].riderEarning # NoNum

(***************************************************************************)
(* Properties of the earning of a parcel with a district missing.          *)
(***************************************************************************)
DistrictsPresent(p) ==
    Cardinality({d \in {"rider", "receiver"} :
        IF d = "rider" THEN p.riderDistrict # NoText
        ELSE p.receiverDistrict # NoText})

\* the earning in tenths, of the parcel as it was before the step
EarningOfStored(i, tenths) ==
    10 * parcels'[i].riderEarning = CostOrZero(parcels[i]) * tenths

MissingDistrictEarning(id) ==
    \A i \in 1..Len(parcels) :
        parcels[i]._id = id =>
            /\ DistrictsPresent(parcels[i]) = 0 => EarningOfStored(i, 3)
            /\ DistrictsPresent(parcels[i]) = 1 => EarningOfStored(i, 8)

MissingDistrictStep ==
    last'.op = "parcelSetStatus" =>
    \A id \in ParcelIdInputs, status \in {"Delivered", "DELIVERED"} :
        \/ MissingDistrictEarning(id)
        \/ ~ParcelSetStatus(id, status)

\* C24: in parcel setStatus with a delivered status, riderEarning is computed
\* from the parcel as read before the status write; a parcel with neither
\* riderDistrict nor receiverDistrict counts as same-district (30%), and a
\* parcel with exactly one of the two counts as different-district (80%).
C24_MissingDistrictEarning == [][MissingDistrictStep]_vars

\* a delivered parcel without districts that earned 30 of a cost of 100
C24_NoDistrictEarnedThirty ==
    /\ last.op = "parcelSetStatus"
    /\ last.status = 200
    /\ \E i \in 1..Len(parcels) :
          /\ DistrictsPresent(parcels[i]) = 0
          /\ parcels[i].deliveryCost = 100
          /\ parcels[i].riderEarning = 30

=============================================================================
